---- MODULE Spec2Model ----
(***************************************************************************)
(* Model of src/formatting.rs: format_bytes, format_number and the three   *)
(* serde adapters serialize_bytes, serialize_number and                    *)
(* serialize_optional_number.                                              *)
(*                                                                         *)
(* Representation.  TLC integers are 32-bit signed, a u32 is not, so a u32 *)
(* is the record [hi, lo] standing for hi * 2^20 + lo with lo < 2^20.      *)
(* A String is a sequence of one-character strings.  The f64 `value` of    *)
(* both formatters is the record [num, by, k] standing for the real number *)
(* num / by^k, the input after k divisions by the divisor `by`:            *)
(*   - by = 1024: a u32 has at most 32 significant bits and a division by  *)
(*     a power of two only changes the exponent, so the f64 IS num/1024^k; *)
(*   - by = 1000: the f64 differs from num/1000^k by a relative error of   *)
(*     at most 2^-52 (two correctly rounded divisions).  Every comparison  *)
(*     the code makes (>= 1500.0, < 10.0) and every rounding position of   *)
(*     {:.0} and {:.1} lies on a multiple of 1/20, while num/1000^k is a   *)
(*     multiple of 1/10^6: when the two differ they differ by at least     *)
(*     10^-6, far more than the error, so the exact quotient decides.      *)
(*     When num/1000^k sits exactly on a rounding position, num/1000 is an *)
(*     integer or k = 1, so the f64 is the single correctly rounded        *)
(*     nearest double of that rational, and F64Err gives the side on which *)
(*     it falls.                                                           *)
(***************************************************************************)
EXTENDS Integers, Sequences, FiniteSets, TLC

\* ------------------------------------------------------------------ u32

Limb == 2 ^ 20

MaxHi == (2 ^ 12) - 1

\* the u32 whose value is the (non-negative, 31-bit) integer i
U32Of(i) == [hi |-> i \div Limb, lo |-> i % Limb]

\* quotient (an integer) and remainder of the u32 b by d, for 0 < d <= 2^20
DivMod(b, d) ==
  LET t == b.hi * (Limb % d) + b.lo
  IN  [q |-> b.hi * (Limb \div d) + t \div d, r |-> t % d]

\* ---------------------------------------------------------------- strings

DigitChars == <<"0", "1", "2", "3", "4", "5", "6", "7", "8", "9">>

RECURSIVE Digits(_)
\* Display of a non-negative integer: its decimal digits, no sign, no padding
Digits(n) ==
  IF n < 10 THEN <<DigitChars[n + 1]>>
  ELSE Digits(n \div 10) \o <<DigitChars[(n % 10) + 1]>>

RECURSIVE Padded(_, _)
\* the w lowest decimal digits of n, zero-padded on the left
Padded(n, w) ==
  IF w = 0 THEN <<>>
  ELSE Padded(n \div 10, w - 1) \o <<DigitChars[(n % 10) + 1]>>

\* `{bytes}` / `{number}`: Display of a u32
DisplayU32(b) ==
  LET m == DivMod(b, 1000000)
  IN  IF m.q = 0 THEN Digits(m.r) ELSE Digits(m.q) \o Padded(m.r, 6)

\* ------------------------------------------------------------------- f64

\* `bytes as f64` / `number as f64`: exact, no division made yet
AsF64(b, by) == [num |-> b, by |-> by, k |-> 0]

\* `value /= 1024.0` / `value /= 1000.0`
Divide(value) == [value EXCEPT !.k = @ + 1]

RECURSIVE FloorDiv(_, _, _)
\* floor(b / by^k) as an integer, one division at a time
FloorDiv(b, by, k) ==
  IF k = 0 THEN b
  ELSE FloorDiv(U32Of(DivMod(b, by).q), by, k - 1)

\* `value >= c` and `value < c` for an integer constant c: value >= c iff
\* floor(value) >= c
GeConst(value, c) ==
  LET f == FloorDiv(value.num, value.by, value.k)
      cc == U32Of(c)
  IN  f.hi > cc.hi \/ (f.hi = cc.hi /\ f.lo >= cc.lo)

LtConst(value, c) == ~GeConst(value, c)

RECURSIVE Log2Floor(_)
Log2Floor(n) == IF n < 2 THEN 0 ELSE 1 + Log2Floor(n \div 2)

RECURSIVE PowMod(_, _, _)
\* base^e mod m
PowMod(base, e, m) ==
  IF e = 0 THEN 1 % m ELSE (base * PowMod(base, e - 1, m)) % m

\* Sign of (nearest f64 of q) - q for the rational q = a / (2 * 10^prec),
\* a odd, q >= 1 with integer part ip.  q = (a / 5^prec) / 2^(prec+1), and
\* the 53-bit significand is round(a * 2^s / 5^prec) with
\* s = 52 - floor(log2 q) - (prec + 1); its remainder mod 5^prec decides.
\* 5^prec is odd, so the significand never ties.
F64Err(a, prec, ip) ==
  LET c == 5 ^ prec
      s == 52 - Log2Floor(ip) - (prec + 1)
      r == ((a % c) * PowMod(2, s, c)) % c
  IN  IF r = 0 THEN 0 ELSE IF 2 * r < c THEN -1 ELSE 1

\* mutant of FormatFixed: the digits after the last kept one are cut off
FormatFixedTruncating(value, prec) ==
  LET d   == value.by ^ value.k
      m   == DivMod(value.num, d)
      p10 == 10 ^ prec
      p   == m.q * p10 + (m.r * p10) \div d
  IN  IF prec = 0 THEN Digits(p)
      ELSE Digits(p \div p10) \o <<".">> \o Padded(p % p10, prec)

\* `{value:.prec}`: value in decimal with exactly prec fraction digits,
\* correctly rounded from the f64, an exact tie going to the even digit
FormatFixed(value, prec) ==
  LET d    == value.by ^ value.k
      m    == DivMod(value.num, d)
      p10  == 10 ^ prec
      sc   == m.r * p10
      low  == m.q * p10 + sc \div d
      rem  == sc % d
      err  == IF 2 * rem # d \/ value.by = 1024 THEN 0
              ELSE F64Err(2 * low + 1, prec, m.q)
      up   == \/ 2 * rem > d
              \/ 2 * rem = d /\ (err > 0 \/ (err = 0 /\ low % 2 = 1))
      p    == IF up THEN low + 1 ELSE low
  IN  IF prec = 0 THEN Digits(p)
      ELSE Digits(p \div p10) \o <<".">> \o Padded(p % p10, prec)

\* ------------------------------------------------------------ formatters

THRESHOLD == 1500

BYTES_UNITS == << <<"B">>, <<"K", "i", "B">>, <<"M", "i", "B">> >>

NUMBER_UNITS == << <<>>, <<"K">>, <<"M">> >>

\* what a call returns when it panics (UNITS[unit_index] out of bounds)
PANIC == <<"panic">>

\* mutant of LoopCond: the next unit is taken from 1024 on
LoopCondAtUnit(value, unit_index, units) ==
  GeConst(value, 1024) /\ unit_index < Len(units) - 1

\* mutant of LoopCond: the next unit is taken from 1000 on
LoopCondAtThousand(value, unit_index, units) ==
  GeConst(value, 1000) /\ unit_index < Len(units) - 1

\* mutant of LoopCond: the bound on unit_index is off by one
LoopCondPastLastUnit(value, unit_index, units) ==
  GeConst(value, THRESHOLD) /\ unit_index < Len(units)

\* the `while` condition of both formatters
LoopCond(value, unit_index, units) ==
  GeConst(value, THRESHOLD) /\ unit_index < Len(units) - 1

RECURSIVE ScaleLoop(_, _, _)
\* the `while` loop of both formatters, run to its exit
ScaleLoop(value, unit_index, units) ==
  IF LoopCond(value, unit_index, units)
  THEN ScaleLoop(Divide(value), unit_index + 1, units)
  ELSE [value |-> value, unit_index |-> unit_index]

\* mutant of BytesTail: no special case for plain bytes
BytesTailNoSpecialCase(bytes, value, unit_index) ==
  IF unit_index >= Len(BYTES_UNITS) THEN PANIC
  ELSE LET unit == BYTES_UNITS[unit_index + 1]
       IN  IF LtConst(value, 10) THEN FormatFixed(value, 2) \o <<" ">> \o unit
           ELSE IF LtConst(value, 100) THEN FormatFixed(value, 1) \o <<" ">> \o unit
           ELSE FormatFixed(value, 0) \o <<" ">> \o unit

\* format_bytes from `let unit = UNITS[unit_index]` to its end
BytesTail(bytes, value, unit_index) ==
  IF unit_index >= Len(BYTES_UNITS) THEN PANIC
  ELSE LET unit == BYTES_UNITS[unit_index + 1]
       IN  IF unit_index = 0 THEN DisplayU32(bytes) \o <<" ">> \o unit
           ELSE IF LtConst(value, 10) THEN FormatFixed(value, 2) \o <<" ">> \o unit
           ELSE IF LtConst(value, 100) THEN FormatFixed(value, 1) \o <<" ">> \o unit
           ELSE FormatFixed(value, 0) \o <<" ">> \o unit

\* mutant of NumberTail: one decimal place whatever the scaled value
NumberTailOneDecimal(number, value, unit_index) ==
  IF unit_index >= Len(NUMBER_UNITS) THEN PANIC
  ELSE LET unit == NUMBER_UNITS[unit_index + 1]
       IN  IF unit_index = 0 THEN DisplayU32(number)
           ELSE FormatFixed(value, 1) \o unit

\* format_number from `let unit = UNITS[unit_index]` to its end
NumberTail(number, value, unit_index) ==
  IF unit_index >= Len(NUMBER_UNITS) THEN PANIC
  ELSE LET unit == NUMBER_UNITS[unit_index + 1]
       IN  IF unit_index = 0 THEN DisplayU32(number)
           ELSE IF LtConst(value, 10) THEN FormatFixed(value, 1) \o unit
           ELSE FormatFixed(value, 0) \o unit

format_bytes(bytes) ==
  LET x == ScaleLoop(AsF64(bytes, 1024), 0, BYTES_UNITS)
  IN  BytesTail(bytes, x.value, x.unit_index)

format_number(number) ==
  LET x == ScaleLoop(AsF64(number, 1000), 0, NUMBER_UNITS)
  IN  NumberTail(number, x.value, x.unit_index)

\* ------------------------------------------------------------- serializer

\* what a serde Serializer call can return: Ok(S::Ok) or Err(S::Error)
Replies ==
  { [kind |-> "Ok", val |-> "ok"],
    [kind |-> "Err", val |-> "io"],
    [kind |-> "Err", val |-> "encoding"] }

NoReply == [kind |-> "none", val |-> ""]

Panicked == [kind |-> "panic", val |-> ""]

\* a Serializer: how it answers serialize_str and serialize_none
Serializers == [str : Replies, none : Replies]

\* serializer.serialize_str(&text)
serialize_str(s, text) ==
  [calls |-> <<[op |-> "serialize_str", text |-> text, reply |-> s.str]>>,
   ret   |-> s.str]

\* serializer.serialize_none()
serialize_none(s) ==
  [calls |-> <<[op |-> "serialize_none", text |-> <<>>, reply |-> s.none]>>,
   ret   |-> s.none]

\* an adapter's outcome: the serializer calls it made, what it returned, and
\* the formatters it invoked
Outcome(r, formatted) ==
  [calls |-> r.calls, ret |-> r.ret, formatted |-> formatted]

\* the argument of serializer.serialize_str(&f): a panic in the formatter
\* unwinds through the adapter before the serializer is called
StrOf(s, f) ==
  IF f = PANIC THEN [calls |-> <<>>, ret |-> Panicked] ELSE serialize_str(s, f)

\* mutant of serialize_bytes: a serializer error is dropped
serialize_bytes_lenient(bytes, s) ==
  LET r == StrOf(s, format_bytes(bytes))
  IN  Outcome([calls |-> r.calls,
               ret   |-> IF r.ret.kind = "Err"
                         THEN [kind |-> "Ok", val |-> "ok"] ELSE r.ret],
              <<"format_bytes">>)

serialize_bytes(bytes, s) ==
  Outcome(StrOf(s, format_bytes(bytes)), <<"format_bytes">>)

serialize_number(number, s) ==
  Outcome(StrOf(s, format_number(number)), <<"format_number">>)

Some(v) == [some |-> TRUE, v |-> v]

NoneArg == [some |-> FALSE, v |-> U32Of(0)]

\* mutant of serialize_optional_number: None is written as the number 0
serialize_optional_number_or_zero(opt_number, s) ==
  Outcome(StrOf(s, format_number(opt_number.v)), <<"format_number">>)

\* mutant of serialize_optional_number: Some is formatted as a byte size
serialize_optional_number_as_bytes(opt_number, s) ==
  IF opt_number.some
  THEN Outcome(StrOf(s, format_bytes(opt_number.v)), <<"format_bytes">>)
  ELSE Outcome(serialize_none(s), <<>>)

serialize_optional_number(opt_number, s) ==
  IF opt_number.some
  THEN Outcome(StrOf(s, format_number(opt_number.v)), <<"format_number">>)
  ELSE Outcome(serialize_none(s), <<>>)

\* ----------------------------------------------------------------- inputs

DenseMax == 10300

TieMax == 220

Window == 3

HiStride == 64

\* the magnitudes at which a unit, a precision or a printed width changes
Centres ==
  { 10 * 1024, 100 * 1024, 1024 * 1024, THRESHOLD * 1024,
    10 * Limb, 100 * Limb, 1024 * Limb, THRESHOLD * Limb,
    10236, 102349, 10480517, 104805172,
    10000, 1000000, THRESHOLD * 1000, 10000000, 1000000000,
    THRESHOLD * 1000000, 9950000, 2000000000 }

LoSamples == {0, 1, (Limb \div 2) - 1, Limb \div 2, (Limb \div 2) + 1, Limb - 1}

Inputs ==
  {U32Of(i) : i \in 0..DenseMax}
    \cup {U32Of(50 * j) : j \in 0..TieMax}
    \cup {U32Of(c + w) : c \in Centres, w \in (0 - Window)..Window}
    \cup {[hi |-> h, lo |-> l] :
            h \in {x \in 0..MaxHi : x % HiStride = 0 \/ x = MaxHi}, l \in LoSamples}

Args == {Some(b) : b \in Inputs} \cup {NoneArg}

\* ------------------------------------------------------------------ state

VARIABLES
  arg,         \* the magnitude handed to the call: Some(u32) or NoneArg
  pc,          \* "ready", "loop" (inside a formatter's while loop), "done"
  called,      \* the function invoked
  value,       \* the formatter's local `value`
  unit_index,  \* the formatter's local `unit_index`
  out,         \* the String a formatter returned
  ret,         \* the Result an adapter returned
  ser_calls,   \* the calls the adapter made on its serializer, in order
  formatted    \* the formatters the adapter invoked, in order

vars == <<arg, pc, called, value, unit_index, out, ret, ser_calls, formatted>>

Init ==
  /\ arg \in Args
  /\ pc = "ready"
  /\ called = "none"
  /\ value = AsF64(U32Of(0), 1)
  /\ unit_index = 0
  /\ out = <<>>
  /\ ret = NoReply
  /\ ser_calls = <<>>
  /\ formatted = <<>>

UnitsOf(f) == IF f = "format_bytes" THEN BYTES_UNITS ELSE NUMBER_UNITS

\* format_bytes, lines 27-28
CallFormatBytes ==
  /\ pc = "ready" /\ arg.some
  /\ called' = "format_bytes"
  /\ value' = AsF64(arg.v, 1024)
  /\ unit_index' = 0
  /\ pc' = "loop"
  /\ UNCHANGED <<arg, out, ret, ser_calls, formatted>>

\* format_number, lines 78-79
CallFormatNumber ==
  /\ pc = "ready" /\ arg.some
  /\ called' = "format_number"
  /\ value' = AsF64(arg.v, 1000)
  /\ unit_index' = 0
  /\ pc' = "loop"
  /\ UNCHANGED <<arg, out, ret, ser_calls, formatted>>

\* one iteration of the while loop
LoopStep ==
  /\ pc = "loop"
  /\ LoopCond(value, unit_index, UnitsOf(called))
  /\ value' = Divide(value)
  /\ unit_index' = unit_index + 1
  /\ UNCHANGED <<arg, pc, called, out, ret, ser_calls, formatted>>

\* the loop condition is false: pick the unit, format, return
LoopExit ==
  /\ pc = "loop"
  /\ ~LoopCond(value, unit_index, UnitsOf(called))
  /\ out' = IF called = "format_bytes"
            THEN BytesTail(arg.v, value, unit_index)
            ELSE NumberTail(arg.v, value, unit_index)
  /\ pc' = "done"
  /\ UNCHANGED <<arg, called, value, unit_index, ret, ser_calls, formatted>>

Adapter(name, r) ==
  /\ called' = name
  /\ ser_calls' = r.calls
  /\ ret' = r.ret
  /\ formatted' = r.formatted
  /\ pc' = "done"
  /\ UNCHANGED <<arg, value, unit_index, out>>

SerializeBytes ==
  /\ pc = "ready" /\ arg.some
  /\ \E s \in Serializers : Adapter("serialize_bytes", serialize_bytes(arg.v, s))

SerializeNumber ==
  /\ pc = "ready" /\ arg.some
  /\ \E s \in Serializers : Adapter("serialize_number", serialize_number(arg.v, s))

SerializeOptionalNumber ==
  /\ pc = "ready"
  /\ \E s \in Serializers :
       Adapter("serialize_optional_number", serialize_optional_number(arg, s))

Next ==
  \/ CallFormatBytes
  \/ CallFormatNumber
  \/ LoopStep
  \/ LoopExit
  \/ SerializeBytes
  \/ SerializeNumber
  \/ SerializeOptionalNumber

Spec == Init /\ [][Next]_vars

\* ---------------------------------------------------- reading the results

Done(f) == pc = "done" /\ called = f

\* b < c and b >= c, for a u32 b and an integer c < 2^31
U32Lt(b, c) ==
  LET cc == U32Of(c) IN b.hi < cc.hi \/ (b.hi = cc.hi /\ b.lo < cc.lo)

U32Ge(b, c) == ~U32Lt(b, c)

EndsWith(s, suffix) ==
  /\ Len(s) >= Len(suffix)
  /\ SubSeq(s, Len(s) - Len(suffix) + 1, Len(s)) = suffix

\* positions of the character ch in s
Places(s, ch) == {i \in 1..Len(s) : s[i] = ch}

Min(S) == CHOOSE x \in S : \A y \in S : x <= y

\* the text before the first occurrence of ch (all of s when there is none)
Before(s, ch) ==
  IF Places(s, ch) = {} THEN s ELSE SubSeq(s, 1, Min(Places(s, ch)) - 1)

\* s without its trailing K or M
Unsuffixed(s) ==
  IF Len(s) > 0 /\ s[Len(s)] \in {"K", "M"} THEN SubSeq(s, 1, Len(s) - 1) ELSE s

IsDigit(ch) == \E d \in 1..10 : DigitChars[d] = ch

DigitValue(ch) == (CHOOSE d \in 1..10 : DigitChars[d] = ch) - 1

RECURSIVE ParseDec(_)
\* the integer a sequence of digit characters denotes (other characters skipped)
ParseDec(s) ==
  IF s = <<>> THEN 0
  ELSE LET init == SubSeq(s, 1, Len(s) - 1)
           last == s[Len(s)]
       IN  IF IsDigit(last) THEN 10 * ParseDec(init) + DigitValue(last)
           ELSE ParseDec(init)

\* s is the canonical decimal numeral of the integer n
IsNumeralOf(s, n) ==
  /\ Len(s) >= 1
  /\ \A i \in 1..Len(s) : IsDigit(s[i])
  /\ Len(s) = 1 \/ s[1] # "0"
  /\ ParseDec(s) = n

\* number of characters after the decimal point of a numeral (0 without one)
DecimalPlaces(num) ==
  IF Places(num, ".") = {} THEN 0 ELSE Len(num) - Min(Places(num, "."))

\* the numeral num shows the u32 b divided by d, rounded to the nearest
\* multiple of 10^-places (either neighbour on an exact tie)
IsRounded(num, b, d, places) ==
  LET m   == DivMod(b, d)
      sc  == m.r * (10 ^ places)
      low == m.q * (10 ^ places) + sc \div d
      rem == sc % d
      p   == ParseDec(num)
  IN  \/ p = low /\ 2 * rem <= d
      \/ p = low + 1 /\ 2 * rem >= d

\* ------------------------------------------------------------------ claims

Formatters == {"format_bytes", "format_number"}

Adapters == {"serialize_bytes", "serialize_number", "serialize_optional_number"}

\* C1: for every u32 b, the numeric portion of format_bytes(b), the text
\* before the separating space, is at most 4 characters long, the decimal
\* point counting as a character.
C1_BytesNumericAtMost4 ==
  Done("format_bytes") => Len(Before(out, " ")) <= 4

\* C2: the unit of format_bytes(b) is fixed by b alone: the result ends in
\* " KiB" exactly for b in [1500, 1500*1024) and in " MiB" for every
\* b >= 1500*1024 up to the u32 maximum.
C2_BytesUnitByThreshold ==
  Done("format_bytes") =>
    /\ EndsWith(out, <<" ", "K", "i", "B">>)
         <=> (U32Ge(arg.v, 1500) /\ U32Lt(arg.v, 1500 * 1024))
    /\ U32Ge(arg.v, 1500 * 1024) => EndsWith(out, <<" ", "M", "i", "B">>)

C2_Witness ==
  /\ Done("format_bytes")
  /\ arg.v = [hi |-> MaxHi, lo |-> Limb - 1]
  /\ EndsWith(out, <<" ", "M", "i", "B">>)

\* C3: for every b in [0, 1499], format_bytes(b) is exactly the decimal
\* digits of b, one space and "B", with no decimal places.
C3_BytesBelowThreshold ==
  (Done("format_bytes") /\ U32Lt(arg.v, 1500)) =>
    /\ EndsWith(out, <<" ", "B">>)
    /\ IsNumeralOf(SubSeq(out, 1, Len(out) - 2), arg.v.lo)

C3_Witness ==
  /\ Done("format_bytes")
  /\ arg.v = U32Of(1499)
  /\ out = <<"1", "4", "9", "9", " ", "B">>

C5_NumberNumericAtMost4 ==
  Done("format_number") => (out # PANIC /\ Len(Unsuffixed(out)) <= 4)

C5_Witness ==
  /\ Done("format_number")
  /\ out = <<"1", "0", ".", "0", "K">>

\* C6: serialize_optional_number called with None invokes the serializer's
\* none operation exactly once, never its string operation, and never
\* invokes format_number.
C6_NoneTakesAbsentPath ==
  (Done("serialize_optional_number") /\ ~arg.some) =>
    /\ Len(ser_calls) = 1
    /\ ser_calls[1].op = "serialize_none"
    /\ \A i \in 1..Len(ser_calls) : ser_calls[i].op # "serialize_str"
    /\ \A i \in 1..Len(formatted) : formatted[i] # "format_number"

C6_Witness ==
  /\ Done("serialize_optional_number")
  /\ ~arg.some
  /\ Len(ser_calls) = 1
  /\ ret.kind = "Err"

\* C7: for every u32 n, serialize_optional_number(Some(n), s) hands the
\* serializer exactly the single string write serialize_number(n, s) does,
\* namely format_number(n), and never takes the none path.
C7_SomeSameAsSerializeNumber ==
  (Done("serialize_optional_number") /\ arg.some) =>
    /\ Len(ser_calls) = 1
    /\ LET s   == [str |-> ser_calls[1].reply, none |-> ser_calls[1].reply]
           ref == serialize_number(arg.v, s)
       IN  /\ ser_calls = ref.calls
           /\ ret = ref.ret
    /\ ser_calls[1].op = "serialize_str"
    /\ ser_calls[1].text = format_number(arg.v)

C7_Witness ==
  /\ Done("serialize_optional_number")
  /\ arg.some
  /\ Len(ser_calls) = 1
  /\ EndsWith(ser_calls[1].text, <<"M">>)

\* C8: each adapter makes exactly one call to the serializer per invocation
\* and returns that call's result unchanged: the serializer's error comes
\* back as it is, and no error comes back when the serializer succeeded.
C8_AdapterReturnsSerializerResult ==
  (pc = "done" /\ called \in Adapters) =>
    /\ Len(ser_calls) = 1
    /\ ret = ser_calls[1].reply

C8_Witness ==
  /\ Done("serialize_bytes")
  /\ Len(ser_calls) = 1
  /\ ret = [kind |-> "Err", val |-> "io"]

C10_LoopStopsAtLastUnit ==
  (called \in Formatters) =>
    /\ unit_index \in 0..2
    /\ value.k = unit_index
    /\ pc = "done" =>
         /\ out # PANIC
         /\ Len(out) >= 1
         /\ (called = "format_bytes" /\ arg.v = U32Of(1073741824))
              => out = <<"1", "0", "2", "4", " ", "M", "i", "B">>
         /\ (called = "format_number" /\ arg.v = U32Of(1000000000))
              => out = <<"1", "0", "0", "0", "M">>

C10_Witness ==
  /\ Done("format_number")
  /\ unit_index = 2
  /\ GeConst(value, 1500)
  /\ EndsWith(out, <<"M">>)

====
